---- MODULE Spec2Model ----
(***************************************************************************)
(* Legal Services CRM API (main.py, schemas.py): the request handlers over *)
(* the five document collections, the id boundary between the external     *)
(* string id and the store's ObjectId, the settings singleton and the      *)
(* analytics summary.                                                      *)
(*                                                                         *)
(* A collection is the sequence of its documents in the store's natural    *)
(* order.  A document is a function from field names to values.  A handler *)
(* that makes one store round trip is one action; get_settings (find, then *)
(* insert) and analytics_summary (count, count, scan, aggregate) are one   *)
(* action per round trip, so that other requests interleave between them.  *)
(* Every step writes `response`: the answer of the request that has just   *)
(* completed, or NoResponse after a step that completes none.              *)
(***************************************************************************)
EXTENDS Integers, Sequences, FiniteSets, TLC

(* ------------------------------ bounds -------------------------------- *)

\* Length of the string form of an ObjectId (24 hex digits in bson).
OidLen == 2

\* Number of identifiers the store hands out in one run.
MaxIds == 2

\* GET /settings requests that may sit between their find and their insert.
MaxInFlight == 2

(* ------------------------- program constants -------------------------- *)

TopLimit == 5

CustomerListLimit == 100

ListLimit == 200

NULL == "null"

EmptyDoc == [k \in {} |-> k]

Get(d, k, default) == IF k \in DOMAIN d THEN d[k] ELSE default

Min(a, b) == IF a < b THEN a ELSE b

(* --------------------------- identifier codec ------------------------- *)

\* The hex digits id strings are written with here ("a" and "A" spell the same
\* digit); any other character, such as "g", is no hex digit.
HexChars == {"0", "a", "A"}

HexVal(c) == IF c = "0" THEN 0 ELSE 10

HexChar(v) == IF v = 0 THEN "0" ELSE "a"

\* ObjectId that looks at the length only.
is_object_id_by_length(s) == Len(s) = OidLen

\* ObjectId(s) raises InvalidId unless s is OidLen hex digits.
IsObjectId(s) == Len(s) = OidLen /\ \A i \in 1..Len(s) : s[i] \in HexChars

ObjectId(s) == [i \in 1..OidLen |-> HexVal(s[i])]

\* str(oid): the lower-case hex form.
Str(oid) == [i \in 1..Len(oid) |-> HexChar(oid[i])]

\* The n-th identifier the store assigns: distinct for distinct n < 2^OidLen.
NewObjectId(n) == [i \in 1..OidLen |-> IF (n \div (2 ^ (OidLen - i))) % 2 = 1 THEN 10 ELSE 0]

\* The identifier of a document that was in the store before the process started.
LegacyOid == [i \in 1..OidLen |-> 10]

\* to_str_id without the pop: the internal id stays in the output.
to_str_id_keeps_internal(doc) == IF "_id" \in DOMAIN doc THEN ("id" :> Str(doc["_id"])) @@ doc ELSE doc

to_str_id(doc) ==
    IF "_id" \in DOMAIN doc
    THEN ("id" :> Str(doc["_id"])) @@ [k \in DOMAIN doc \ {"_id"} |-> doc[k]]
    ELSE doc

(* ------------------------------ schemas ------------------------------- *)

WellFormedEmails == {"ann@example.com", "info@example.com"}

IsEmail(e) == e \in WellFormedEmails

CustomerValid(p) == "name" \in DOMAIN p /\ "email" \in DOMAIN p /\ IsEmail(p.email)

Customer(p) ==
    [name |-> p.name, email |-> p.email, phone |-> Get(p, "phone", NULL),
     address |-> Get(p, "address", NULL), notes |-> Get(p, "notes", NULL),
     status |-> Get(p, "status", "active")]

ProductValid(p) == "title" \in DOMAIN p /\ "price" \in DOMAIN p /\ p.price >= 0

Product(p) ==
    [title |-> p.title, description |-> Get(p, "description", NULL), price |-> p.price,
     category |-> Get(p, "category", "service"), in_stock |-> Get(p, "in_stock", TRUE)]

OrderItemValid(i) ==
    /\ "product_id" \in DOMAIN i
    /\ "price" \in DOMAIN i /\ i.price >= 0
    /\ Get(i, "quantity", 1) >= 1

OrderItem(i) == [product_id |-> i.product_id, quantity |-> Get(i, "quantity", 1), price |-> i.price]

OrderValid(p) ==
    /\ "customer_id" \in DOMAIN p
    /\ "total" \in DOMAIN p /\ p.total >= 0
    /\ \A k \in 1..Len(Get(p, "items", <<>>)) : OrderItemValid(p.items[k])

Order(p) ==
    [customer_id |-> p.customer_id,
     items |-> [k \in 1..Len(Get(p, "items", <<>>)) |-> OrderItem(p.items[k])],
     total |-> p.total, status |-> Get(p, "status", "pending"), notes |-> Get(p, "notes", NULL)]

FactFindValid(p) == "customer_id" \in DOMAIN p

FactFind(p) ==
    [customer_id |-> p.customer_id, responses |-> Get(p, "responses", EmptyDoc),
     stage |-> Get(p, "stage", "new")]

SettingsValid(p) ==
    /\ IsEmail(Get(p, "contact_email", "info@example.com"))
    /\ Get(p, "tax_rate", 0) >= 0 /\ Get(p, "tax_rate", 0) <= 1

Settings(p) ==
    [company_name |-> Get(p, "company_name", "Your Law Firm"),
     contact_email |-> Get(p, "contact_email", "info@example.com"),
     currency |-> Get(p, "currency", "USD"),
     tax_rate |-> Get(p, "tax_rate", 0)]

(* --------------------------- request inputs --------------------------- *)

Opt(k, vals) == {EmptyDoc} \cup {k :> v : v \in vals}

\* The id strings requests carry: the ids the store can hand out, the same in
\* upper case, a well-formed id the store never hands out, ids with a
\* character that is no hex digit, one too short and one too long.
IssuedIds == {Str(NewObjectId(n)) : n \in 0..(MaxIds - 1)}

Upper(s) == [i \in 1..Len(s) |-> IF s[i] = "a" THEN "A" ELSE s[i]]

IdInputs ==
    IssuedIds \cup {Upper(s) : s \in IssuedIds} \cup {Str(LegacyOid)}
        \cup {[i \in 1..OidLen |-> "g"], [i \in 1..OidLen |-> IF i = OidLen THEN "g" ELSE "a"]}
        \cup {[i \in 1..(OidLen - 1) |-> "a"], [i \in 1..(OidLen + 1) |-> "a"]}

CustomerPayloads ==
    {[name |-> "Ann", email |-> "ann@example.com"],
     [name |-> "Ann", email |-> "ann@example.com", phone |-> "555", status |-> "lead"],
     [name |-> "Ann", email |-> "not-an-email"],
     [email |-> "ann@example.com", status |-> "lead"],
     [name |-> "Ann", phone |-> "555"]}

CustomerUpdates == {[status |-> "archived", vip |-> "yes"]}

ProductPayloads == {[title |-> "Will Writing", price |-> 100], [title |-> "Probate", price |-> -1], [price |-> 100]}

ProductUpdates == {[price |-> 50, in_stock |-> FALSE]}

Item(p, q) == [product_id |-> p, quantity |-> q, price |-> 1]

OrderPayloads ==
    {[customer_id |-> "c1", total |-> 10, items |-> <<Item("A", 3)>>],
     [customer_id |-> "c1", total |-> 5, items |-> <<Item("A", 2)>>],
     [customer_id |-> "c2", total |-> 0],
     [customer_id |-> "c2", total |-> 7, items |-> <<Item("A", 1), Item("B", 2), Item("C", 3)>>],
     [customer_id |-> "c2", total |-> 9,
      items |-> <<Item("D", 2), Item("E", 2), [product_id |-> "F", price |-> 1], Item("D", 2)>>],
     [customer_id |-> "c1", total |-> -1],
     [total |-> 5],
     [customer_id |-> "c1", total |-> 5, items |-> <<Item("A", 0)>>]}

CrudOrderPayloads == {[customer_id |-> "c2", total |-> 0], [total |-> 5]}

FactFindPayloads == {[customer_id |-> "c1"], [customer_id |-> "c2", stage |-> "completed"], [stage |-> "new"]}

SettingsPayloads ==
    {c @@ t @@ u : c \in Opt("company_name", {"Acme"}), t \in Opt("tax_rate", {1, 2}),
                   u \in Opt("currency", {"GBP"})}

Limits == {1, ListLimit}

(* ------------------------------- state -------------------------------- *)

VARIABLES
    db,         \* the store handle: "None" or "connected", fixed at import
    customer, product, order, factfind, settings,   \* the collections
    nextId,     \* how many identifiers the store has handed out
    inflight,   \* GET /settings requests that found no document and have not inserted yet
    an,         \* the analytics request in progress: its position and its locals
    response,   \* what the step just taken answered
    submitted,  \* history: id POST /customers returned -> the payload it received
    modified,   \* history: ids (as returned by POST) of the customers a PUT has matched
    deleted,    \* history: ids (as returned by POST) of the customers a DELETE has removed
    firstGet    \* history: <<record>> the first GET /settings on the empty store returned

storeVars == <<customer, product, order, factfind, settings, nextId>>

histVars == <<submitted, modified, deleted, firstGet>>

vars == <<db, customer, product, order, factfind, settings, nextId, inflight, an, response,
          submitted, modified, deleted, firstGet>>

NoResponse == [op |-> "none", arg |-> NULL, status |-> 0, body |-> NULL]

Respond(op, arg, body) == [op |-> op, arg |-> arg, status |-> 200, body |-> body]

HTTPException(op, arg, status, detail) == [op |-> op, arg |-> arg, status |-> status, body |-> detail]

AnIdle == [pc |-> "idle", customers |-> 0, orders |-> 0, revenue |-> 0, dirty |-> FALSE]

\* A document the store held before the process started: an order written
\* without `total` and without `items`.
LegacyOrder == ("_id" :> LegacyOid) @@ [customer_id |-> "c0", status |-> "paid"]

Init ==
    /\ db \in {"None", "connected"}
    /\ customer = <<>> /\ product = <<>> /\ factfind = <<>> /\ settings = <<>>
    /\ order = <<>>
    /\ nextId = 0
    /\ inflight = 0
    /\ an = AnIdle
    /\ response = NoResponse
    /\ submitted = EmptyDoc /\ modified = {} /\ deleted = {}
    /\ firstGet = <<>>

\* The process started on a store that already holds an order.
InitLegacy ==
    /\ db = "connected"
    /\ customer = <<>> /\ product = <<>> /\ factfind = <<>> /\ settings = <<>>
    /\ order = <<LegacyOrder>>
    /\ nextId = 0
    /\ inflight = 0
    /\ an = AnIdle
    /\ response = NoResponse
    /\ submitted = EmptyDoc /\ modified = {} /\ deleted = {}
    /\ firstGet = <<>>

(* ------------------------- the store's operations --------------------- *)

Matches(doc, filter) == \A k \in DOMAIN filter : k \in DOMAIN doc /\ doc[k] = filter[k]

Matching(coll, filter) == {i \in 1..Len(coll) : Matches(coll[i], filter)}

First(S) == CHOOSE i \in S : \A j \in S : i <= j

\* find_one: the index of the first matching document, 0 when none matches.
find_one(coll, filter) == IF Matching(coll, filter) = {} THEN 0 ELSE First(Matching(coll, filter))

Remove(coll, i) == SubSeq(coll, 1, i - 1) \o SubSeq(coll, i + 1, Len(coll))

\* update_one that inserts on no match whatever `upsert` says.
update_one_always_upserts(coll, filter, set, upsert, oid) ==
    LET i == find_one(coll, filter) IN
    IF i = 0
    THEN [coll |-> Append(coll, ("_id" :> oid) @@ set), matched_count |-> 0]
    ELSE [coll |-> [coll EXCEPT ![i] = set @@ coll[i]], matched_count |-> 1]

\* update_one with {"$set": set}: field-level overwrite of the first match;
\* with upsert and no match, one document made of the set fields is inserted.
update_one(coll, filter, set, upsert, oid) ==
    LET i == find_one(coll, filter) IN
    IF i = 0
    THEN [coll |-> IF upsert THEN Append(coll, ("_id" :> oid) @@ set) ELSE coll,
          matched_count |-> 0]
    ELSE [coll |-> [coll EXCEPT ![i] = set @@ coll[i]], matched_count |-> 1]

\* delete_one that reports the match and removes nothing.
delete_one_keeps(coll, filter) ==
    [coll |-> coll, deleted_count |-> IF find_one(coll, filter) = 0 THEN 0 ELSE 1]

delete_one(coll, filter) ==
    LET i == find_one(coll, filter) IN
    IF i = 0
    THEN [coll |-> coll, deleted_count |-> 0]
    ELSE [coll |-> Remove(coll, i), deleted_count |-> 1]

\* database.create_document, database.get_documents: raise when the store handle is missing.
StoreUnavailable == db = "None"

\* The handlers without their check of the handle.
db_check_skipped == FALSE

\* main.py: `if db is None: raise HTTPException(500, "Database not available")`.
DbIsNone == db = "None"

\* database.create_document: the record inserted verbatim under a fresh id.
create_document(coll, data) == Append(coll, ("_id" :> NewObjectId(nextId)) @@ data)

\* database.get_documents: up to `limit` documents matching an exact-match filter.
get_documents(coll, filter, limit) ==
    LET hits == SelectSeq(coll, LAMBDA d : Matches(d, filter)) IN
    SubSeq(hits, 1, Min(limit, Len(hits)))

\* A write to the collections the analytics summary reads, while a summary is in progress.
Disturb == an' = IF an.pc = "idle" THEN an ELSE [an EXCEPT !.dirty = TRUE]

(* ------------------------------ customers ----------------------------- *)

create_customer(payload) ==
    /\ UNCHANGED <<db, product, order, factfind, settings, inflight, modified, deleted, firstGet>>
    /\ \/ /\ ~CustomerValid(payload)
          /\ response' = HTTPException("create_customer", payload, 422, "validation error")
          /\ UNCHANGED <<customer, nextId, an, submitted>>
       \/ /\ CustomerValid(payload) /\ StoreUnavailable
          /\ response' = HTTPException("create_customer", payload, 500, "Database not available")
          /\ UNCHANGED <<customer, nextId, an, submitted>>
       \/ /\ CustomerValid(payload) /\ ~StoreUnavailable /\ nextId < MaxIds
          /\ customer' = create_document(customer, Customer(payload))
          /\ nextId' = nextId + 1
          /\ response' = Respond("create_customer", payload, [id |-> Str(NewObjectId(nextId))])
          /\ submitted' = (Str(NewObjectId(nextId)) :> payload) @@ submitted
          /\ Disturb

list_customers(limit) ==
    /\ UNCHANGED <<db, storeVars, inflight, an, histVars>>
    /\ response' =
         IF StoreUnavailable
         THEN HTTPException("list_customers", limit, 500, "Database not available")
         ELSE LET docs == get_documents(customer, EmptyDoc, limit) IN
              Respond("list_customers", limit, [i \in 1..Len(docs) |-> to_str_id(docs[i])])

get_customer(customer_id) ==
    /\ UNCHANGED <<db, storeVars, inflight, an, histVars>>
    /\ response' =
         IF DbIsNone
         THEN HTTPException("get_customer", customer_id, 500, "Database not available")
         ELSE IF ~IsObjectId(customer_id)
         THEN HTTPException("get_customer", customer_id, 400, "Invalid customer id")
         ELSE LET i == find_one(customer, [_id |-> ObjectId(customer_id)]) IN
              IF i = 0
              THEN HTTPException("get_customer", customer_id, 404, "Customer not found")
              ELSE Respond("get_customer", customer_id, to_str_id(customer[i]))

update_customer(customer_id, payload) ==
    /\ UNCHANGED <<db, product, order, factfind, settings, nextId, inflight, submitted, deleted, firstGet>>
    /\ IF DbIsNone
       THEN /\ response' = HTTPException("update_customer", customer_id, 500, "Database not available")
            /\ UNCHANGED <<customer, an, modified>>
       ELSE IF ~IsObjectId(customer_id)
       THEN /\ response' = HTTPException("update_customer", customer_id, 400, "Invalid customer id")
            /\ UNCHANGED <<customer, an, modified>>
       ELSE LET res == update_one(customer, [_id |-> ObjectId(customer_id)], payload, FALSE,
                                  NewObjectId(nextId)) IN
            /\ customer' = res.coll
            /\ IF res.matched_count = 0
               THEN /\ response' = HTTPException("update_customer", customer_id, 404, "Customer not found")
                    /\ UNCHANGED <<an, modified>>
               ELSE /\ response' = Respond("update_customer", customer_id, [updated |-> TRUE])
                    /\ modified' = modified \cup {Str(ObjectId(customer_id))}
                    /\ Disturb

delete_customer(customer_id) ==
    /\ UNCHANGED <<db, product, order, factfind, settings, nextId, inflight, submitted, modified, firstGet>>
    /\ IF DbIsNone
       THEN /\ response' = HTTPException("delete_customer", customer_id, 500, "Database not available")
            /\ UNCHANGED <<customer, an, deleted>>
       ELSE IF ~IsObjectId(customer_id)
       THEN /\ response' = HTTPException("delete_customer", customer_id, 400, "Invalid customer id")
            /\ UNCHANGED <<customer, an, deleted>>
       ELSE LET res == delete_one(customer, [_id |-> ObjectId(customer_id)]) IN
            /\ customer' = res.coll
            /\ IF res.deleted_count = 0
               THEN /\ response' = HTTPException("delete_customer", customer_id, 404, "Customer not found")
                    /\ UNCHANGED <<an, deleted>>
               ELSE /\ response' = Respond("delete_customer", customer_id, [deleted |-> TRUE])
                    /\ deleted' = deleted \cup {Str(ObjectId(customer_id))}
                    /\ Disturb

(* ------------------------------ products ------------------------------ *)

create_product(payload) ==
    /\ UNCHANGED <<db, customer, order, factfind, settings, inflight, an, histVars>>
    /\ \/ /\ ~ProductValid(payload)
          /\ response' = HTTPException("create_product", payload, 422, "validation error")
          /\ UNCHANGED <<product, nextId>>
       \/ /\ ProductValid(payload) /\ StoreUnavailable
          /\ response' = HTTPException("create_product", payload, 500, "Database not available")
          /\ UNCHANGED <<product, nextId>>
       \/ /\ ProductValid(payload) /\ ~StoreUnavailable /\ nextId < MaxIds
          /\ product' = create_document(product, Product(payload))
          /\ nextId' = nextId + 1
          /\ response' = Respond("create_product", payload, [id |-> Str(NewObjectId(nextId))])

list_products(limit) ==
    /\ UNCHANGED <<db, storeVars, inflight, an, histVars>>
    /\ response' =
         IF StoreUnavailable
         THEN HTTPException("list_products", limit, 500, "Database not available")
         ELSE LET docs == get_documents(product, EmptyDoc, limit) IN
              Respond("list_products", limit, [i \in 1..Len(docs) |-> to_str_id(docs[i])])

update_product(product_id, payload) ==
    /\ UNCHANGED <<db, customer, order, factfind, settings, nextId, inflight, an, histVars>>
    /\ IF DbIsNone
       THEN /\ response' = HTTPException("update_product", product_id, 500, "Database not available")
            /\ UNCHANGED product
       ELSE IF ~IsObjectId(product_id)
       THEN /\ response' = HTTPException("update_product", product_id, 400, "Invalid product id")
            /\ UNCHANGED product
       ELSE LET res == update_one(product, [_id |-> ObjectId(product_id)], payload, FALSE,
                                  NewObjectId(nextId)) IN
            /\ product' = res.coll
            /\ response' =
                 IF res.matched_count = 0
                 THEN HTTPException("update_product", product_id, 404, "Product not found")
                 ELSE Respond("update_product", product_id, [updated |-> TRUE])

(* ------------------------------- orders ------------------------------- *)

create_order(payload) ==
    /\ UNCHANGED <<db, customer, product, factfind, settings, inflight, histVars>>
    /\ \/ /\ ~OrderValid(payload)
          /\ response' = HTTPException("create_order", payload, 422, "validation error")
          /\ UNCHANGED <<order, nextId, an>>
       \/ /\ OrderValid(payload) /\ StoreUnavailable
          /\ response' = HTTPException("create_order", payload, 500, "Database not available")
          /\ UNCHANGED <<order, nextId, an>>
       \/ /\ OrderValid(payload) /\ ~StoreUnavailable /\ nextId < MaxIds
          /\ order' = create_document(order, Order(payload))
          /\ nextId' = nextId + 1
          /\ response' = Respond("create_order", payload, [id |-> Str(NewObjectId(nextId))])
          /\ Disturb

list_orders(limit) ==
    /\ UNCHANGED <<db, storeVars, inflight, an, histVars>>
    /\ response' =
         IF StoreUnavailable
         THEN HTTPException("list_orders", limit, 500, "Database not available")
         ELSE LET docs == get_documents(order, EmptyDoc, limit) IN
              Respond("list_orders", limit, [i \in 1..Len(docs) |-> to_str_id(docs[i])])

get_order(order_id) ==
    /\ UNCHANGED <<db, storeVars, inflight, an, histVars>>
    /\ response' =
         IF DbIsNone
         THEN HTTPException("get_order", order_id, 500, "Database not available")
         ELSE IF ~IsObjectId(order_id)
         THEN HTTPException("get_order", order_id, 400, "Invalid order id")
         ELSE LET i == find_one(order, [_id |-> ObjectId(order_id)]) IN
              IF i = 0
              THEN HTTPException("get_order", order_id, 404, "Order not found")
              ELSE Respond("get_order", order_id, to_str_id(order[i]))

(* ------------------------------ factfinds ----------------------------- *)

create_factfind(payload) ==
    /\ UNCHANGED <<db, customer, product, order, settings, inflight, an, histVars>>
    /\ \/ /\ ~FactFindValid(payload)
          /\ response' = HTTPException("create_factfind", payload, 422, "validation error")
          /\ UNCHANGED <<factfind, nextId>>
       \/ /\ FactFindValid(payload) /\ StoreUnavailable
          /\ response' = HTTPException("create_factfind", payload, 500, "Database not available")
          /\ UNCHANGED <<factfind, nextId>>
       \/ /\ FactFindValid(payload) /\ ~StoreUnavailable /\ nextId < MaxIds
          /\ factfind' = create_document(factfind, FactFind(payload))
          /\ nextId' = nextId + 1
          /\ response' = Respond("create_factfind", payload, [id |-> Str(NewObjectId(nextId))])

\* customer_id is NULL when the query parameter is absent; "" is falsy as well.
list_factfinds(limit, customer_id) ==
    /\ UNCHANGED <<db, storeVars, inflight, an, histVars>>
    /\ response' =
         IF StoreUnavailable
         THEN HTTPException("list_factfinds", <<limit, customer_id>>, 500, "Database not available")
         ELSE LET filter_dict == IF customer_id \notin {NULL, ""}
                                 THEN [customer_id |-> customer_id] ELSE EmptyDoc
                  docs == get_documents(factfind, filter_dict, limit) IN
              Respond("list_factfinds", <<limit, customer_id>>,
                      [i \in 1..Len(docs) |-> to_str_id(docs[i])])

(* ------------------------------ settings ------------------------------ *)

\* The store can still hand out an identifier to a new request, the ones that
\* requests in flight are about to take counted in.
CanAllocate == nextId + inflight < MaxIds

\* get_settings up to its find_one: answers when a document exists (or the
\* handle is missing), and otherwise goes on to insert the defaults.
get_settings_find ==
    /\ UNCHANGED <<db, storeVars, an, histVars>>
    /\ IF DbIsNone
       THEN /\ response' = HTTPException("get_settings", NULL, 500, "Database not available")
            /\ UNCHANGED inflight
       ELSE LET i == find_one(settings, EmptyDoc) IN
            IF i # 0
            THEN /\ response' = Respond("get_settings", NULL, to_str_id(settings[i]))
                 /\ UNCHANGED inflight
            ELSE /\ inflight < MaxInFlight /\ CanAllocate
                 /\ inflight' = inflight + 1
                 /\ response' = NoResponse

\* get_settings after a find_one that found nothing: create_document, return default.
get_settings_create ==
    /\ inflight > 0
    /\ LET default == Settings(EmptyDoc) IN
       /\ settings' = create_document(settings, default)
       /\ response' = Respond("get_settings", NULL, default)
       /\ firstGet' = IF firstGet = <<>> THEN <<default>> ELSE firstGet
    /\ nextId' = nextId + 1
    /\ inflight' = inflight - 1
    /\ UNCHANGED <<db, customer, product, order, factfind, an, submitted, modified, deleted>>

update_settings(payload) ==
    /\ UNCHANGED <<db, customer, product, order, factfind, inflight, an, submitted, modified, deleted>>
    /\ \/ /\ ~SettingsValid(payload)
          /\ response' = HTTPException("update_settings", payload, 422, "validation error")
          /\ UNCHANGED <<settings, nextId, firstGet>>
       \/ /\ SettingsValid(payload) /\ DbIsNone
          /\ response' = HTTPException("update_settings", payload, 500, "Database not available")
          /\ UNCHANGED <<settings, nextId, firstGet>>
       \/ /\ SettingsValid(payload) /\ ~DbIsNone
          /\ settings # <<>> \/ CanAllocate
          /\ LET res == update_one(settings, EmptyDoc, Settings(payload), TRUE, NewObjectId(nextId)) IN
             /\ settings' = res.coll
             /\ nextId' = IF res.matched_count = 0 THEN nextId + 1 ELSE nextId
          /\ response' = Respond("update_settings", payload, [updated |-> TRUE])
          /\ firstGet' = <<>>

(* ------------------------------ analytics ----------------------------- *)

RECURSIVE RevenueLoop(_, _, _)

RevenueLoop(orders, i, revenue) ==
    IF i > Len(orders) THEN revenue
    ELSE RevenueLoop(orders, i + 1, revenue + Get(orders[i], "total", 0))

\* The scan that starts at the second order.
revenue_skips_first(orders) == RevenueLoop(orders, 2, 0)

\* for o in db["order"].find({}, {"total": 1}): revenue += float(o.get("total", 0))
Revenue(orders) == RevenueLoop(orders, 1, 0)

RECURSIVE Unwind(_)

\* {"$unwind": "$items"}: one row per item; a document without items gives none.
Unwind(orders) ==
    IF orders = <<>> THEN <<>>
    ELSE Get(Head(orders), "items", <<>>) \o Unwind(Tail(orders))

RECURSIVE SumQty(_, _)

SumQty(rows, pid) ==
    IF rows = <<>> THEN 0
    ELSE (IF Head(rows).product_id = pid THEN Get(Head(rows), "quantity", 0) ELSE 0)
         + SumQty(Tail(rows), pid)

\* {"$group": {"_id": "$items.product_id", "qty": {"$sum": "$items.quantity"}}}
Group(rows) ==
    {[_id |-> pid, qty |-> SumQty(rows, pid)] : pid \in {rows[i].product_id : i \in 1..Len(rows)}}

RECURSIVE sort_ascending(_)

\* {"$sort": {"qty": 1}}
sort_ascending(groups) ==
    IF groups = {} THEN {<<>>}
    ELSE UNION {{<<g>> \o s : s \in sort_ascending(groups \ {g})} :
                g \in {x \in groups : \A y \in groups : x.qty <= y.qty}}

RECURSIVE SortDesc(_)

\* {"$sort": {"qty": -1}}: every order of the groups that is descending by qty
\* (the order among equal qty is the store's choice).
SortDesc(groups) ==
    IF groups = {} THEN {<<>>}
    ELSE UNION {{<<g>> \o s : s \in SortDesc(groups \ {g})} :
                g \in {x \in groups : \A y \in groups : x.qty >= y.qty}}

\* {"$limit": 5}
Limit(rows, n) == SubSeq(rows, 1, Min(n, Len(rows)))

\* db["order"].aggregate(pipeline): the cursors the store may return.
aggregate(orders) == {Limit(s, TopLimit) : s \in SortDesc(Group(Unwind(orders)))}

\* top_products after the loop has appended the first k results of the cursor.
Appended(cursor, k) == [i \in 1..k |-> [product_id |-> cursor[i]._id, quantity |-> cursor[i].qty]]

\* An except clause that leaves top_products as the loop left it.
on_aggregate_error_keeps(top_products) == top_products

\* except Exception: top_products = []
OnAggregateError(top_products) == <<>>

analytics_count_customers ==
    /\ an.pc = "idle"
    /\ UNCHANGED <<db, storeVars, inflight, histVars>>
    /\ IF DbIsNone
       THEN /\ response' = HTTPException("analytics_summary", NULL, 500, "Database not available")
            /\ UNCHANGED an
       ELSE /\ an' = [AnIdle EXCEPT !.pc = "orders", !.customers = Len(customer)]
            /\ response' = NoResponse

analytics_count_orders ==
    /\ an.pc = "orders"
    /\ an' = [an EXCEPT !.pc = "revenue", !.orders = Len(order)]
    /\ response' = NoResponse
    /\ UNCHANGED <<db, storeVars, inflight, histVars>>

analytics_revenue ==
    /\ an.pc = "revenue"
    /\ an' = [an EXCEPT !.pc = "top", !.revenue = Revenue(order)]
    /\ response' = NoResponse
    /\ UNCHANGED <<db, storeVars, inflight, histVars>>

\* The aggregation, its loop and the return.  `fails` with k: the aggregate call
\* (k = 0) or the read of the cursor after k results raises.  The request's
\* argument slot records what happened to it: whether a write to customers or
\* orders interleaved, and whether the aggregation raised.
analytics_top_products ==
    /\ an.pc = "top"
    /\ \E cursor \in aggregate(order), fails \in BOOLEAN :
         \E k \in IF fails THEN 0..Len(cursor) ELSE {Len(cursor)} :
            response' = Respond("analytics_summary",
                                [quiescent |-> ~an.dirty, failed |-> fails, read |-> k],
                                [customers |-> an.customers, orders |-> an.orders,
                                 revenue |-> an.revenue,
                                 top_products |-> IF fails THEN OnAggregateError(Appended(cursor, k))
                                                  ELSE Appended(cursor, k)])
    /\ an' = AnIdle
    /\ UNCHANGED <<db, storeVars, inflight, histVars>>

(* ------------------------------ behaviour ----------------------------- *)

CustomerOps ==
    \/ \E p \in CustomerPayloads : create_customer(p)
    \/ \E l \in {1, CustomerListLimit} : list_customers(l)
    \/ \E id \in IdInputs : get_customer(id)
    \/ \E id \in IdInputs, p \in CustomerUpdates : update_customer(id, p)
    \/ \E id \in IdInputs : delete_customer(id)

ProductOps ==
    \/ \E p \in ProductPayloads : create_product(p)
    \/ \E l \in Limits : list_products(l)
    \/ \E id \in IdInputs, p \in ProductUpdates : update_product(id, p)

OrderOps ==
    \/ \E p \in OrderPayloads : create_order(p)
    \/ \E l \in Limits : list_orders(l)
    \/ \E id \in IdInputs : get_order(id)

FactFindOps ==
    \/ \E p \in FactFindPayloads : create_factfind(p)
    \/ \E l \in Limits, c \in {NULL, "", "c1"} : list_factfinds(l, c)

SettingsOps ==
    \/ get_settings_find
    \/ get_settings_create
    \/ \E p \in SettingsPayloads : update_settings(p)

AnalyticsOps ==
    \/ analytics_count_customers
    \/ analytics_count_orders
    \/ analytics_revenue
    \/ analytics_top_products

Next == CustomerOps \/ ProductOps \/ OrderOps \/ FactFindOps \/ SettingsOps \/ AnalyticsOps

\* The whole service.
Spec == Init /\ [][Next]_vars

\* The specifications below are the service restricted to the routes that write
\* the collections a property reads.  A route left out writes none of them, and
\* every route marks `response` with its own name, so a property about one
\* route's answers reads no state the routes left out could have changed.

\* The handlers by id and their collections.
CrudNext ==
    \/ \E p \in CustomerPayloads : create_customer(p)
    \/ \E id \in IdInputs : get_customer(id)
    \/ \E id \in IdInputs, p \in CustomerUpdates : update_customer(id, p)
    \/ \E id \in IdInputs : delete_customer(id)
    \/ \E p \in ProductPayloads : create_product(p)
    \/ \E id \in IdInputs, p \in ProductUpdates : update_product(id, p)
    \/ \E p \in CrudOrderPayloads : create_order(p)
    \/ \E id \in IdInputs : get_order(id)

SpecCrud == Init /\ [][CrudNext]_vars

\* The settings singleton under concurrent requests.
SpecSettings == Init /\ [][SettingsOps]_vars

\* Every id string of the right length over these characters, and the rest of IdInputs.
IdChars == {"0", "a", "A", "g"}

AllIds == [1..OidLen -> IdChars] \cup IdInputs

\* The data endpoints' first steps, on every input.
EntryNext ==
    \/ \E p \in CustomerPayloads : create_customer(p)
    \/ \E l \in {1, CustomerListLimit} : list_customers(l)
    \/ \E id \in AllIds : get_customer(id)
    \/ \E id \in AllIds, p \in CustomerUpdates : update_customer(id, p)
    \/ \E id \in AllIds : delete_customer(id)
    \/ \E p \in ProductPayloads : create_product(p)
    \/ \E l \in Limits : list_products(l)
    \/ \E id \in AllIds, p \in ProductUpdates : update_product(id, p)
    \/ \E p \in OrderPayloads : create_order(p)
    \/ \E l \in Limits : list_orders(l)
    \/ \E id \in AllIds : get_order(id)
    \/ \E p \in FactFindPayloads : create_factfind(p)
    \/ \E l \in Limits, c \in {NULL, "", "c1"} : list_factfinds(l, c)
    \/ get_settings_find
    \/ \E p \in SettingsPayloads : update_settings(p)
    \/ analytics_count_customers

\* The process started without a store handle.
InitUnavailable == Init /\ db = "None"

SpecUnavailable == InitUnavailable /\ [][EntryNext]_vars

AnalyticsNext ==
    \/ \E p \in CustomerPayloads : create_customer(p)
    \/ \E p \in OrderPayloads : create_order(p)
    \/ AnalyticsOps

\* The analytics summary, with writes to the collections it reads interleaved.
SpecAnalytics == (Init \/ InitLegacy) /\ [][AnalyticsNext]_vars

(* ------------------------------ properties ---------------------------- *)

\* What the properties say of an id string, stated apart from the codec above.
ValidSyntax(s) == Len(s) = OidLen /\ \A i \in 1..Len(s) : s[i] \in {"0", "a", "A"}

Lower(s) == [i \in 1..Len(s) |-> IF s[i] = "A" THEN "a" ELSE s[i]]

\* The documents of a collection whose id, in string form, is s up to case.
Holds(coll, s) == \E i \in 1..Len(coll) : Str(coll[i]["_id"]) = Lower(s)

ByIdOps == {"get_customer", "update_customer", "delete_customer", "update_product", "get_order"}

CollectionOf(op) ==
    IF op \in {"get_customer", "update_customer", "delete_customer"} THEN customer
    ELSE IF op = "update_product" THEN product ELSE order

\* C1: the settings collection never holds more than one document, whatever
\* GET /settings and PUT /settings requests run and however they interleave.
C1_SettingsSingleton == Len(settings) <= 1

\* C2: the first GET /settings on the empty store returns the defaults, and every
\* later GET /settings with no PUT in between returns the same record as it did.
C2_SubsequentGetSameRecord ==
    /\ firstGet # <<>> =>
         firstGet[1] = [company_name |-> "Your Law Firm", contact_email |-> "info@example.com",
                        currency |-> "USD", tax_rate |-> 0]
    /\ (response.op = "get_settings" /\ response.status = 200 /\ firstGet # <<>>) =>
         response.body = firstGet[1]

\* C3: once DELETE /customers/{id} has succeeded for an id, every later GET and
\* every later DELETE of that id answers 404, whatever happened in between.
C3_DeletedStaysGone ==
    [][(/\ response'.op \in {"get_customer", "delete_customer"}
        /\ db = "connected"
        /\ ValidSyntax(response'.arg)
        /\ Lower(response'.arg) \in deleted)
       => response'.status = 404]_vars

C3_Witness ==
    /\ response.op = "delete_customer" /\ response.status = 404
    /\ ValidSyntax(response.arg) /\ Lower(response.arg) \in deleted
    /\ customer # <<>>

C5_UpdateMissingChangesNothing ==
    [][(/\ response'.op \in {"update_customer", "update_product"}
        /\ db = "connected"
        /\ ValidSyntax(response'.arg)
        /\ ~Holds(CollectionOf(response'.op), response'.arg))
       => /\ response'.status = 404
          /\ UNCHANGED <<customer, product, order, factfind, settings>>]_vars

C5_Witness ==
    /\ response.op = "update_customer" /\ response.status = 404
    /\ customer # <<>> /\ product # <<>>

DataOps ==
    {"create_customer", "list_customers", "get_customer", "update_customer", "delete_customer",
     "create_product", "list_products", "update_product",
     "create_order", "list_orders", "get_order",
     "create_factfind", "list_factfinds",
     "get_settings", "update_settings", "analytics_summary"}

StoreUntouched ==
    /\ customer = <<>> /\ product = <<>> /\ order = <<>> /\ factfind = <<>> /\ settings = <<>>
    /\ nextId = 0

\* C6, as stated: without a store handle every data endpoint answers 500
\* "Database not available", for any id or payload.
C6_AlwaysUnavailable ==
    (db = "None" /\ response.op \in DataOps) =>
        response.status = 500 /\ response.body = "Database not available"

PayloadValid(op, p) ==
    IF op = "create_customer" THEN CustomerValid(p)
    ELSE IF op = "create_product" THEN ProductValid(p)
    ELSE IF op = "create_order" THEN OrderValid(p)
    ELSE IF op = "create_factfind" THEN FactFindValid(p)
    ELSE IF op = "update_settings" THEN SettingsValid(p)
    ELSE TRUE

\* C6, amended: without a store handle every data endpoint answers 500
\* "Database not available" for any id and any payload its schema accepts, a
\* payload its schema rejects is answered 422, and the store is not touched.
C6_UnavailableUnlessRejected ==
    (db = "None" /\ response.op \in DataOps) =>
        /\ StoreUntouched
        /\ IF PayloadValid(response.op, response.arg)
           THEN response.status = 500 /\ response.body = "Database not available"
           ELSE response.status = 422

C6_Witness ==
    /\ db = "None" /\ response.op = "update_customer"
    /\ response.status = 500 /\ ~ValidSyntax(response.arg)

\* The record GET /customers/{id} owes for a payload POST /customers accepted.
Expected(p, id) ==
    [id |-> id, name |-> p.name, email |-> p.email,
     phone |-> IF "phone" \in DOMAIN p THEN p.phone ELSE NULL,
     address |-> NULL, notes |-> NULL,
     status |-> IF "status" \in DOMAIN p THEN p.status ELSE "active"]

RECURSIVE SumOver(_, _)

SumOver(S, f) ==
    IF S = {} THEN 0
    ELSE LET x == CHOOSE x \in S : TRUE IN f[x] + SumOver(S \ {x}, f)

TotalOf(o) == IF "total" \in DOMAIN o THEN o.total ELSE 0

SumOfTotals == SumOver(1..Len(order), [i \in 1..Len(order) |-> TotalOf(order[i])])

Summary == response.op = "analytics_summary" /\ response.status = 200

\* C8: with no write interleaved, the revenue of GET /analytics/summary is the
\* sum of `total` over all orders, a missing `total` counting 0.
C8_RevenueIsSumOfTotals ==
    (Summary /\ response.arg.quiescent) => response.body.revenue = SumOfTotals

C8_Witness ==
    /\ Summary /\ response.arg.quiescent
    /\ response.body.revenue = 15
    /\ \E i \in 1..Len(order) : "total" \notin DOMAIN order[i]

\* The items of all orders, as pairs <<order index, item index>>.
ItemSlots ==
    UNION {{<<i, j>> : j \in 1..(IF "items" \in DOMAIN order[i] THEN Len(order[i].items) ELSE 0)} :
           i \in 1..Len(order)}

ProductsOrdered == {order[s[1]].items[s[2]].product_id : s \in ItemSlots}

QuantityOrdered(pid) ==
    LET mine == {s \in ItemSlots : order[s[1]].items[s[2]].product_id = pid} IN
    SumOver(mine, [s \in mine |-> order[s[1]].items[s[2]].quantity])

\* C9: with no write interleaved, top_products holds at most 5 entries, one per
\* distinct product_id, each with that product's quantity summed over all items
\* of all orders, in descending order of it, no product left out having more
\* than one included; it is empty when no order has an item.
C9_TopProducts ==
    (Summary /\ response.arg.quiescent /\ ~response.arg.failed) =>
        LET top == response.body.top_products
            inc == {top[i].product_id : i \in 1..Len(top)} IN
        /\ Len(top) <= 5
        /\ Len(top) = Min(5, Cardinality(ProductsOrdered))
        /\ \A i, j \in 1..Len(top) : i # j => top[i].product_id # top[j].product_id
        /\ \A i \in 1..Len(top) :
             /\ top[i].product_id \in ProductsOrdered
             /\ top[i].quantity = QuantityOrdered(top[i].product_id)
        /\ \A i, j \in 1..Len(top) : i < j => top[i].quantity >= top[j].quantity
        /\ \A p \in ProductsOrdered \ inc : \A i \in 1..Len(top) :
             QuantityOrdered(p) <= top[i].quantity
        /\ ProductsOrdered = {} => top = <<>>

C9_Witness ==
    /\ Summary /\ response.arg.quiescent /\ ~response.arg.failed
    /\ Len(response.body.top_products) = 5
    /\ Cardinality(ProductsOrdered) = 6
    /\ response.body.top_products[1].quantity = 4

\* C10: when the aggregation raises, at the call or while its results are read,
\* GET /analytics/summary still answers 200 with customers, orders and revenue
\* as computed and with top_products empty.
C10_AggregationFailureIsolated ==
    (response.op = "analytics_summary" /\ db = "connected" /\ response.arg.failed) =>
        /\ response.status = 200
        /\ response.body.top_products = <<>>
        /\ response.arg.quiescent =>
             /\ response.body.customers = Len(customer)
             /\ response.body.orders = Len(order)
             /\ response.body.revenue = SumOfTotals

C10_Witness ==
    /\ Summary /\ response.arg.failed /\ response.arg.read >= 2
    /\ response.body.top_products = <<>>
    /\ response.body.revenue > 0

====
